---------------------------- MODULE Spec2Model ----------------------------
(***************************************************************************)
(* The Snackbar component of src/components/Snackbar.js as a state         *)
(* machine: one mounted instance, the props its parent hands it, the       *)
(* Animated.Value `scale` it owns, the auto-dismiss timer it schedules on  *)
(* the host's event loop, and the callbacks it invokes.                    *)
(*                                                                         *)
(* Host primitives (Animated.timing/start, Animated.Value.setValue,        *)
(* setTimeout, clearTimeout) are modelled by what they do to the instance: *)
(*  - start(cb) on a value stops the animation running on that value (its  *)
(*    completion callback is then called with finished: false) and begins  *)
(*    the new one; the callback of the new one is called when the last     *)
(*    frame has been applied (finished: true);                             *)
(*  - setValue(v) stops the animation running on the value (completion     *)
(*    callback called with finished: false) and then sets the value;       *)
(*  - the completion callback of Snackbar.js:154 ignores `finished`.       *)
(* Time is abstracted: a pending timer may fire at any later step.         *)
(***************************************************************************)
EXTENDS Integers, Sequences, FiniteSets

\* ------------------------------------------------------------------ bounds
\* Number of animation frames that take scale from 0 to 1.
ScaleMax == 2
\* Number of distinct onDismiss functions the parent may pass.
NumCallbacks == 2
\* Longest log of callback invocations kept between two visibility changes
\* by presses of the action button.
MaxCalls == 4

\* --------------------------------------------------------------- constants
DURATION_SHORT == 4000
DURATION_LONG == 6000
\* Infinity (Snackbar.js:118): a value different from every finite duration.
DURATION_INDEFINITE == -1

Durations == {DURATION_SHORT, DURATION_LONG, DURATION_INDEFINITE}
Callbacks == 1..NumCallbacks
\* props.action: 0 is undefined, 1 an action descriptor with its onPress.
Actions == {0, 1}

Props == [visible : BOOLEAN, duration : Durations,
          onDismiss : Callbacks, action : Actions]

VARIABLES
  mounted,       \* the instance is in the tree (componentWillUnmount not yet run)
  props,         \* this.props
  scale,         \* this.state.scale, in frames: 0 is 0.0, ScaleMax is 1.0
  animating,     \* an animation is running on this.state.scale
  hideTimeout,   \* this._hideTimeout: a timer id, 0 while undefined
  timers,        \* the host's pending timers: [id, callback, delay]
  cleared,       \* the pending timers that the last step's clearTimeout cancelled
  calls          \* callbacks invoked since the last visibility change

vars == <<mounted, props, scale, animating, hideTimeout, timers, cleared, calls>>

\* The fields of the instance that the handlers read and write.
This == [scale |-> scale, animating |-> animating,
         hideTimeout |-> hideTimeout, timers |-> timers, cleared |-> {}]

\* ------------------------------------------------------- host primitives
TimerIds(s) == {t.id : t \in s.timers}

\* A timer id the host has not handed out to anything still referred to.
FreshId(s) ==
  CHOOSE i \in 1..(Cardinality(s.timers) + 2) :
    i \notin TimerIds(s) \cup {s.hideTimeout}

clearTimeout(s, id) ==
  [s EXCEPT !.timers = {t \in @ : t.id # id},
            !.cleared = @ \cup {t \in s.timers : t.id = id}]

setTimeout(s, cb, delay) ==
  [s EXCEPT !.timers = @ \cup {[id |-> FreshId(s), callback |-> cb, delay |-> delay]}]

\* --------------------------------------------------------------- Snackbar
\* The completion callback passed to start(): Snackbar.js:154-160.
startCallback_NoSentinelTest(s, p) ==
  [setTimeout(s, p.onDismiss, p.duration) EXCEPT !.hideTimeout = FreshId(s)]

startCallback_NeverSchedules(s, p) == s

startCallback(s, p) ==
  IF p.duration # DURATION_INDEFINITE
    THEN [setTimeout(s, p.onDismiss, p.duration) EXCEPT !.hideTimeout = FreshId(s)]
    ELSE s

\* Animation.stop() on the animation of `scale`, if one is running: the
\* animation ends and its completion callback runs (finished: false).
stopAnimation(s, p) ==
  IF s.animating THEN startCallback([s EXCEPT !.animating = FALSE], p) ELSE s

\* Animated.Value.setValue: stop the running animation, then set the value.
setValue_KeepsAnimation(s, p, v) == [s EXCEPT !.scale = v]

setValue(s, p, v) == [stopAnimation(s, p) EXCEPT !.scale = v]

\* Animated.timing(scale, {toValue: 1}).start(cb): Snackbar.js:151-154.
start(s, p) == [stopAnimation(s, p) EXCEPT !.animating = TRUE]

_show_NoClear(s, p) == start(s, p)

_show(s, p) == start(clearTimeout(s, s.hideTimeout), p)

_hide_NoClear(s, p) == setValue(s, p, 0)

_hide_NoReset(s, p) == clearTimeout(s, s.hideTimeout)

_hide(s, p) == setValue(clearTimeout(s, s.hideTimeout), p, 0)

_toggle(s, p) == IF p.visible THEN _show(s, p) ELSE _hide(s, p)

componentDidUpdate_AlwaysToggles(s, prevProps, p) == _toggle(s, p)

componentDidUpdate_ClearsOnDurationChange(s, prevProps, p) ==
  IF prevProps.visible # p.visible THEN _toggle(s, p)
  ELSE IF prevProps.duration # p.duration THEN clearTimeout(s, s.hideTimeout)
  ELSE s

componentDidUpdate(s, prevProps, p) ==
  IF prevProps.visible # p.visible THEN _toggle(s, p) ELSE s

componentWillUnmount_NoClear(s) == s

componentWillUnmount(s) == clearTimeout(s, s.hideTimeout)

\* The onPress handler of the action button: Snackbar.js:195-198.
onPress_DismissFirst(p) ==
  << [fn |-> "onDismiss", cb |-> p.onDismiss, by |-> "press"],
     [fn |-> "action.onPress", cb |-> p.action, by |-> "press"] >>

onPress(p) ==
  << [fn |-> "action.onPress", cb |-> p.action, by |-> "press"],
     [fn |-> "onDismiss", cb |-> p.onDismiss, by |-> "press"] >>

\* ------------------------------------------------------------------ state
Assign(s) ==
  /\ scale' = s.scale
  /\ animating' = s.animating
  /\ hideTimeout' = s.hideTimeout
  /\ timers' = s.timers
  /\ cleared' = s.cleared

Init_ShowsOnMount ==
  /\ mounted = TRUE
  /\ props \in Props
  /\ scale = 0
  /\ animating = props.visible
  /\ hideTimeout = 0
  /\ timers = {}
  /\ cleared = {}
  /\ calls = <<>>

Init ==
  /\ mounted = TRUE
  /\ props \in Props
  /\ scale = 0
  /\ animating = FALSE
  /\ hideTimeout = 0
  /\ timers = {}
  /\ cleared = {}
  /\ calls = <<>>

\* The parent renders the mounted component with props p; React commits
\* them and calls componentDidUpdate(prevProps).
Render(p) ==
  /\ mounted
  /\ props' = p
  /\ Assign(componentDidUpdate(This, props, p))
  /\ calls' = IF props.visible # p.visible THEN <<>> ELSE calls
  /\ UNCHANGED mounted

\* The parent removes the component from the tree.
Unmount ==
  /\ mounted
  /\ mounted' = FALSE
  /\ Assign(componentWillUnmount(This))
  /\ UNCHANGED <<props, calls>>

\* One frame of the running animation; the last frame sets toValue and
\* calls the completion callback (finished: true).
AnimationFrame ==
  /\ animating
  /\ LET v == IF scale < ScaleMax THEN scale + 1 ELSE ScaleMax
         s == [This EXCEPT !.scale = v]
     IN  IF v = ScaleMax
           THEN Assign(startCallback([s EXCEPT !.animating = FALSE], props))
           ELSE Assign(s)
  /\ UNCHANGED <<mounted, props, calls>>

\* A pending timer fires: the host calls the function given to setTimeout.
TimerFire ==
  \E t \in timers :
    /\ timers' = timers \ {t}
    /\ cleared' = {}
    /\ calls' = Append(calls, [fn |-> "onDismiss", cb |-> t.callback, by |-> "timer"])
    /\ UNCHANGED <<mounted, props, scale, animating, hideTimeout>>

Press_AlsoHides ==
  /\ mounted
  /\ props.action # 0
  /\ Len(calls) + 2 <= MaxCalls
  /\ calls' = calls \o onPress(props)
  /\ Assign(_hide(This, props))
  /\ UNCHANGED <<mounted, props>>

\* The user presses the action button of the rendered component.
Press ==
  /\ mounted
  /\ props.action # 0
  /\ Len(calls) + 2 <= MaxCalls
  /\ calls' = calls \o onPress(props)
  /\ cleared' = {}
  /\ UNCHANGED <<mounted, props, scale, animating, hideTimeout, timers>>

Next ==
  \/ \E p \in Props : Render(p)
  \/ Unmount
  \/ AnimationFrame
  \/ TimerFire
  \/ Press

Spec == Init /\ [][Next]_vars

TypeOK ==
  /\ mounted \in BOOLEAN
  /\ props \in Props
  /\ scale \in 0..ScaleMax
  /\ animating \in BOOLEAN
  /\ hideTimeout \in Nat
  /\ \A t \in timers \cup cleared : t.callback \in Callbacks /\ t.delay \in Durations
  /\ Len(calls) <= MaxCalls + 1

\* ------------------------------------------------------------- scheduling
\* The host's event loop runs every animation frame that is due and fires
\* every timer that stays pending.
FairSpec == Spec /\ WF_vars(AnimationFrame) /\ WF_vars(TimerFire)

\* A parent that answers onDismiss as the documentation of the prop asks
\* (Snackbar.js:32): it renders the component with visible = false.
ParentDismiss ==
  /\ props.visible
  /\ \E i \in DOMAIN calls : calls[i].fn = "onDismiss"
  /\ Render([props EXCEPT !.visible = FALSE])

DismissSpec == FairSpec /\ WF_vars(ParentDismiss)

\* ------------------------------------------------------------ vocabulary
Finite == props.duration # DURATION_INDEFINITE
TimerCalls == Cardinality({i \in DOMAIN calls : calls[i].by = "timer"})
\* The step is a visibility transition of the mounted component.
HideStep == mounted /\ props.visible /\ ~props'.visible
\* The show animation is in flight after a false -> true transition.
Showing == mounted /\ props.visible /\ animating

\* ----------------------------------------------------------------- claims

\* C1: whatever the sequence of visibility toggles, also toggles that
\* arrive while the show animation is in flight, at most one auto-dismiss
\* timer is pending at any instant.
C1_AtMostOneTimer == Cardinality(timers) <= 1

\* A hide arrived while the show animation was in flight (only then is a
\* timer pending while hidden), and the one timer it left is pending.
C1_Witness == mounted /\ ~props.visible /\ Cardinality(timers) = 1

\* C2: on a true -> false transition every timer pending at that moment is
\* cancelled by that step: it is cleared, is no longer pending, did not
\* call onDismiss in the step, and a timer that is not pending cannot fire.
C2_HideCancelsPendingTimer ==
  [][HideStep => /\ timers \subseteq cleared'
                 /\ timers \cap timers' = {}
                 /\ calls' = <<>>]_vars

\* A hide has just cancelled a pending timer.
C2_Witness == mounted /\ ~props.visible /\ cleared # {} /\ calls = <<>>

\* C3: after a false -> true transition with a finite duration the timer
\* invokes onDismiss exactly once: never twice between two visibility
\* changes, and at least once unless the flag changes, the component is
\* unmounted or the duration stops being finite in the interim.
C3_DismissExactlyOnce ==
  /\ [](TimerCalls <= 1)
  /\ (Showing /\ Finite) ~>
       (TimerCalls = 1 \/ ~props.visible \/ ~mounted \/ ~Finite)

\* The show completed and its timer has called onDismiss, once.
C3_Witness ==
  /\ mounted /\ props.visible /\ scale = ScaleMax /\ ~animating
  /\ timers = {} /\ TimerCalls = 1

\* C4: when the duration is the indefinite sentinel during the whole run,
\* no timer is ever scheduled and onDismiss is never invoked by a timer.
C4_IndefiniteNeverSchedules ==
  [](props.duration = DURATION_INDEFINITE)
    => [](timers = {} /\ hideTimeout = 0 /\ TimerCalls = 0)

\* A show with indefinite duration has completed and no timer was ever
\* scheduled.
C4_Witness ==
  /\ mounted /\ props.visible /\ ~Finite
  /\ scale = ScaleMax /\ ~animating /\ timers = {} /\ hideTimeout = 0

\* C5: unmounting while a timer is pending cancels it; from then on no
\* timer is pending, none gets scheduled and no callback is invoked.
C5_UnmountCancelsPendingTimer ==
  [][/\ (mounted /\ ~mounted' /\ timers # {}) =>
          (timers \subseteq cleared' /\ timers' = {} /\ ~animating')
     /\ (~mounted /\ timers = {} /\ ~animating) =>
          (timers' = {} /\ ~animating' /\ calls' = calls)]_vars

\* An unmount has just cancelled a pending timer.
C5_Witness == ~mounted /\ cleared # {} /\ timers = {}

\* C6: each press of the action button invokes action.onPress and then
\* onDismiss, in that order, each exactly once, and nothing else.
C6_PressCallsInOrder ==
  [][(Len(calls') > Len(calls) /\ calls'[Len(calls')].by = "press") =>
       calls' = calls \o
         << [fn |-> "action.onPress", cb |-> props.action, by |-> "press"],
            [fn |-> "onDismiss", cb |-> props.onDismiss, by |-> "press"] >>]_vars

\* Two presses have been made, each logged as onPress then onDismiss.
C6_Witness ==
  /\ Len(calls) = 4
  /\ \A i \in 1..4 : calls[i].by = "press"

\* C7: a re-render whose visible value equals the previous one, whatever
\* other props changed, leaves progress, the animation in flight and the
\* pending timer unchanged.
C7_SameVisibleNoEffect ==
  [][(mounted /\ props' # props /\ props'.visible = props.visible) =>
       UNCHANGED <<scale, animating, hideTimeout, timers>>]_vars

\* A timer scheduled under one duration is still pending after a re-render
\* that changed the duration and not the flag.
C7_Witness ==
  /\ mounted /\ props.visible /\ scale = ScaleMax
  /\ \E t \in timers : t.delay # props.duration

C9_NoTimerAfterUnmount == ~mounted => timers = {}

\* C10: a true -> false transition sets progress to 0 in that step and it
\* stays 0, with no animation running, while the flag is false, also when
\* the hide arrives before the show animation has completed.
C10_HiddenMeansZero == ~props.visible => (scale = 0 /\ ~animating)

\* A hide arrived while the show animation was in flight.
C10_Witness == mounted /\ ~props.visible /\ timers # {} /\ scale = 0

\* C11 as stated: whenever a timer is pending the flag is true and the
\* show animation of the current show has completed (progress 1); no
\* timer is pending while the snackbar is hidden.
C11_TimerOnlyWhenShown ==
  (mounted /\ timers # {}) =>
    (props.visible /\ scale = ScaleMax /\ ~animating)

\* A step made by a press of the action button: it logs calls by "press".
PressStep == Len(calls') > Len(calls) /\ calls'[Len(calls')].by = "press"

\* C12: a press of the action button leaves progress, the animation, the
\* timer handle and the pending timer unchanged, and unless the flag
\* changes (or the component unmounts) a timer pending after the press
\* still fires onDismiss.
C12_PressLeavesStateAlone ==
  /\ [][PressStep => UNCHANGED <<scale, animating, hideTimeout, timers>>]_vars
  /\ (mounted /\ props.visible /\ timers # {} /\ Len(calls) >= 2) ~>
       ((timers = {} /\ TimerCalls = 1) \/ ~props.visible \/ ~mounted)

\* The button was pressed while the timer was pending, the flag stayed
\* true, and the timer has then fired onDismiss.
C12_Witness ==
  /\ mounted /\ props.visible /\ scale = ScaleMax /\ Len(calls) = 3
  /\ calls[1].by = "press" /\ calls[2].by = "press" /\ calls[3].by = "timer"

\* C13: in a run where the flag is true from the mount on and never
\* changes, progress stays 0, no animation runs and no timer is scheduled.
C13_InitialVisibleNoTransition ==
  [](props.visible)
    => [](scale = 0 /\ ~animating /\ timers = {} /\ hideTimeout = 0)

\* Mounted with visible true, re-rendered and pressed since, and still at
\* progress 0 with no animation and no timer.
C13_Witness ==
  /\ mounted /\ props.visible /\ scale = 0 /\ ~animating
  /\ timers = {} /\ hideTimeout = 0 /\ Len(calls) = 2

\* The callbacks and delays of a set of timers.
Scheduled(ts) == {<<t.callback, t.delay>> : t \in ts}

\* C14: when the show's animation ends, a timer is scheduled exactly if
\* the duration prop is then finite, with the onDismiss and duration
\* props of that moment; a later change of props that leaves the flag
\* alone neither cancels nor alters the pending timer.
C14_PropsReadAtCompletion ==
  [][/\ (animating /\ ~animating') =>
          Scheduled(timers') =
            IF props'.duration # DURATION_INDEFINITE
              THEN {<<props'.onDismiss, props'.duration>>}
              ELSE {}
     /\ (mounted /\ props' # props /\ props'.visible = props.visible) =>
          timers' = timers]_vars

\* A timer scheduled with a finite duration and one onDismiss is still
\* pending after the props changed to the indefinite duration and to
\* another onDismiss.
C14_Witness ==
  /\ mounted /\ props.visible /\ scale = ScaleMax /\ ~Finite
  /\ \E t \in timers : t.callback # props.onDismiss

=============================================================================
